---- MODULE Spec2Model ----
(***************************************************************************)
(* Model of astrbot_plugin_LLMTempBan (src/main.py): the BlacklistPlugin   *)
(* object with its temporary ban registry, administrator list, cached bot  *)
(* identity and the three entry points that act on them.                   *)
(*                                                                         *)
(* Python strings are sequences of characters, each a TLA+ string, so that *)
(* _normalize_user_id is computed (split on "_", strip) and not assumed.   *)
(* A raw identifier is a tagged value: an int, a str, or another object    *)
(* given by its str() text.  Wall-clock time is the integer `now`, in      *)
(* seconds.                                                                *)
(***************************************************************************)
EXTENDS Integers, Sequences, FiniteSets

VARIABLES
    temporary_blacklist,         \* self.temporary_blacklist: normalized id -> unblock time
    administrators,              \* self.administrators: list of raw configured values
    bot_id,                      \* self.bot_id: "" until resolved
    default_blacklist_duration,  \* self.default_blacklist_duration (minutes)
    save_calls,                  \* number of config.save_config() calls made
    now,                         \* time.time(), seconds
    get_bot_id_called,           \* _get_bot_id has been called since construction
    ev,                          \* the event handled by the last step and its outcome
    call                         \* a direct call of a pure method: arguments and result

vars == <<temporary_blacklist, administrators, bot_id,
          default_blacklist_duration, save_calls, now, get_bot_id_called, ev,
          call>>

----------------------------------------------------------------------------
(* Program constants *)
RetaliationFloor == 5         \* max(5, duration)
SecondsPerMinute == 60        \* duration_minutes * 60
ConfigDefaultDuration == 5    \* config.get("default_blacklist_duration", 5)

(* Bounds of the model *)

\* direct calls of _normalize_user_id take strings of at most MaxLen
\* characters and integers of absolute value at most MaxInt
MaxLen == 3
MaxInt == 12
\* direct calls of _extract_target_user take at most MaxChain components
MaxChain == 3

\* the clock is read at most MaxTicks ticks after the start
MaxTicks == 2
\* seconds between two readings of the clock that differ: the length of the
\* shortest retaliation ban, so that bans are seen to end on the second
TickSeconds == RetaliationFloor * SecondsPerMinute

----------------------------------------------------------------------------
(* Python values *)

IntVal(n) == [tag |-> "int", int |-> n, str |-> <<>>]
StrVal(s) == [tag |-> "str", int |-> 0, str |-> s]
\* any other object, given by the text str() returns for it
OtherVal(s) == [tag |-> "other", int |-> 0, str |-> s]

\* an optional argument: <<>> is None, <<d>> is the value d
None == <<>>
Some(d) == <<d>>

\* the characters str.strip() removes: those for which str.isspace() holds.
\* A character TLA+ cannot write in a string is given by its code point.
Whitespace ==
    {"\t", "\n", "U+000B", "\f", "\r", "U+001C", "U+001D", "U+001E", "U+001F",
     " ", "U+0085", "U+00A0", "U+1680", "U+2000", "U+2001", "U+2002", "U+2003",
     "U+2004", "U+2005", "U+2006", "U+2007", "U+2008", "U+2009", "U+200A",
     "U+2028", "U+2029", "U+202F", "U+205F", "U+3000"}

Digit(d) == CASE d = 0 -> "0" [] d = 1 -> "1" [] d = 2 -> "2" [] d = 3 -> "3"
              [] d = 4 -> "4" [] d = 5 -> "5" [] d = 6 -> "6" [] d = 7 -> "7"
              [] d = 8 -> "8" [] d = 9 -> "9"

RECURSIVE NatToStr(_)
NatToStr(n) == IF n < 10 THEN <<Digit(n)>>
               ELSE NatToStr(n \div 10) \o <<Digit(n % 10)>>

\* str(n) for an int n
IntToStr(n) == IF n < 0 THEN <<"-">> \o NatToStr(-n) ELSE NatToStr(n)

\* s.split("_")[-1]: the part of s after its last underscore
RECURSIVE LastSegment(_)
LastSegment(s) ==
    IF s = <<>> THEN <<>>
    ELSE IF s[Len(s)] = "_" THEN <<>>
    ELSE LastSegment(SubSeq(s, 1, Len(s) - 1)) \o <<s[Len(s)]>>

RECURSIVE LStrip(_)
LStrip(s) == IF s # <<>> /\ s[1] \in Whitespace THEN LStrip(Tail(s)) ELSE s

RECURSIVE RStrip(_)
RStrip(s) == IF s # <<>> /\ s[Len(s)] \in Whitespace
             THEN RStrip(SubSeq(s, 1, Len(s) - 1)) ELSE s

\* s.strip()
Strip(s) == RStrip(LStrip(s))

\* a variant of _normalize_user_id that does not strip the whitespace
NormalizeWithoutStrip(user_id) ==
    IF user_id.tag = "int" THEN IntToStr(user_id.int)
    ELSE IF user_id.tag = "str" THEN LastSegment(user_id.str)
    ELSE user_id.str

\* _normalize_user_id
_normalize_user_id(user_id) ==
    IF user_id.tag = "int" THEN IntToStr(user_id.int)
    ELSE IF user_id.tag = "str" THEN Strip(LastSegment(user_id.str))
    ELSE user_id.str

\* `x in self.administrators` for a str x: equal to some element of the list
\* (a str equals only a str with the same characters)
InList(x, list) == \E i \in 1..Len(list) : list[i] = StrVal(x)

----------------------------------------------------------------------------
(* Inputs of the model: the events the host can deliver *)

\* raw identifiers: users 1 and 2 in two raw forms each, user 3 (only ever
\* mentioned), a bot account 9 that never sends, an identifier that
\* normalizes to "", and the broadcast marker.  The bot runs on account 1
\* (self_id the integer 1), on account 2, on account 9, or reports "qq_".
Int1  == IntVal(1)                         \* 1, normalizes to "1"
Str1  == StrVal(<<"1">>)                   \* "1"
Pre2  == StrVal(<<"q", "q", "_", "2">>)    \* "qq_2", normalizes to "2"
Pad2  == StrVal(<<" ", "2">>)              \* " 2", normalizes to "2"
Str3  == StrVal(<<"3">>)                   \* "3"
Str9  == StrVal(<<"9">>)                   \* "9"
IdNil == StrVal(<<"q", "q", "_">>)         \* "qq_", normalizes to ""
IdAll == StrVal(<<"a", "l", "l">>)         \* "all"

\* event.message_obj.sender.user_id
Senders == {Int1, Pre2}
\* event.message_obj.self_id
SelfIds == {IdNil, Int1, Pad2, Str9}

\* message components: At(qq) or any other component
At(qq) == [kind |-> "At", qq |-> qq]
Plain  == [kind |-> "Plain", qq |-> StrVal(<<>>)]

\* event.message_obj.message
Chains == { <<>>, <<Plain, At(Str1)>>, <<At(IdAll), At(Pre2)>>,
            <<At(Pad2), At(Int1)>>, <<At(Str3)>> }

\* duration_minutes argument of the two ban entry points
Durations == {None, Some(0), Some(1), Some(10)}

\* config["administrators"] at start: user 1 listed as the string "1", or as
\* the integer 1; and config["default_blacklist_duration"]
AdminConfigs == { <<Str1>>, <<Int1>> }
DefaultDurations == {-1, ConfigDefaultDuration}

----------------------------------------------------------------------------
(* The plugin's methods *)

\* _add_bot_to_administrators, on the list `admins` with self.bot_id = bid;
\* save_ok tells whether config.save_config() returns or raises
_add_bot_to_administrators(bid, admins, save_ok) ==
    IF bid # <<>> /\ ~InList(bid, admins)
    THEN [administrators |-> Append(admins, StrVal(bid)),
          saves |-> 1, raised |-> ~save_ok]
    ELSE [administrators |-> admins, saves |-> 0, raised |-> FALSE]

\* _get_bot_id: the bot id, the administrator list and the save calls after it
_get_bot_id(self_id, save_ok) ==
    IF bot_id = <<>>
    THEN LET bid == _normalize_user_id(self_id)
             a   == _add_bot_to_administrators(bid, administrators, save_ok)
         IN  [bot_id |-> bid, administrators |-> a.administrators,
              saves |-> a.saves, raised |-> a.raised]
    ELSE [bot_id |-> bot_id, administrators |-> administrators,
          saves |-> 0, raised |-> FALSE]

\* a variant of _add_to_blacklist that adds the new duration to the time an
\* entry still in force has left, instead of replacing it
AddToBlacklistAccumulating(bl, user_id, duration_minutes) ==
    [k \in DOMAIN bl \cup {user_id} |->
        IF k = user_id
        THEN (IF user_id \in DOMAIN bl /\ bl[user_id] > now
              THEN bl[user_id] ELSE now) + duration_minutes * SecondsPerMinute
        ELSE bl[k]]

\* _add_to_blacklist: the registry after the write
_add_to_blacklist(bl, user_id, duration_minutes) ==
    [k \in DOMAIN bl \cup {user_id} |->
        IF k = user_id THEN now + duration_minutes * SecondsPerMinute ELSE bl[k]]

\* del self.temporary_blacklist[user_id]
Delete(bl, user_id) == [k \in DOMAIN bl \ {user_id} |-> bl[k]]

\* a variant of _extract_target_user that does not leave out the mentions of
\* the bot
RECURSIVE ExtractWithoutBotSkip(_, _)
ExtractWithoutBotSkip(message_chain, bid) ==
    IF message_chain = <<>> THEN <<>>
    ELSE LET component == Head(message_chain)
             rest      == Tail(message_chain)
         IN  IF component.kind # "At" THEN ExtractWithoutBotSkip(rest, bid)
             ELSE IF component.qq = StrVal(<<"a", "l", "l">>)
                  THEN ExtractWithoutBotSkip(rest, bid)
             ELSE _normalize_user_id(component.qq)

\* _extract_target_user
RECURSIVE _extract_target_user(_, _)
_extract_target_user(message_chain, bid) ==
    IF message_chain = <<>> THEN <<>>
    ELSE LET component == Head(message_chain)
             rest      == Tail(message_chain)
         IN  IF component.kind # "At" THEN _extract_target_user(rest, bid)
             ELSE IF component.qq = StrVal(<<"a", "l", "l">>) THEN _extract_target_user(rest, bid)
             ELSE IF _normalize_user_id(component.qq) # bid
                  THEN _normalize_user_id(component.qq)
             ELSE _extract_target_user(rest, bid)

\* the duration a ban entry point works with
EffectiveDuration(duration_minutes) ==
    IF duration_minutes = None THEN default_blacklist_duration
    ELSE duration_minutes[1]

\* _handle_admin_blacklist: the branch taken and the registry after it
_handle_admin_blacklist(admins, target_id, duration) ==
    IF target_id = <<>>
    THEN [branch |-> "admin_no_target", blacklist |-> temporary_blacklist]
    ELSE IF InList(target_id, admins)
    THEN [branch |-> "admin_target_admin", blacklist |-> temporary_blacklist]
    ELSE IF duration <= 0
    THEN [branch |-> "admin_bad_duration", blacklist |-> temporary_blacklist]
    ELSE [branch |-> "admin_ban",
          blacklist |-> _add_to_blacklist(temporary_blacklist, target_id, duration)]

Max(a, b) == IF a >= b THEN a ELSE b

\* a variant of _handle_normal_user_blacklist that lets a normal user ban
\* another normal user
HandleNormalUserBansOthers(admins, sender_id, target_id, duration) ==
    LET target == IF target_id = <<>> THEN sender_id ELSE target_id
    IN  IF duration <= 0
        THEN [branch |-> "user_bad_duration", blacklist |-> temporary_blacklist]
        ELSE IF InList(target, admins)
        THEN [branch |-> "user_retaliate",
              blacklist |-> _add_to_blacklist(temporary_blacklist, sender_id,
                                              Max(RetaliationFloor, duration))]
        ELSE IF target = sender_id
        THEN [branch |-> "user_self",
              blacklist |-> _add_to_blacklist(temporary_blacklist, sender_id, duration)]
        ELSE [branch |-> "user_other",
              blacklist |-> _add_to_blacklist(temporary_blacklist, target, duration)]

\* a variant of _handle_normal_user_blacklist whose retaliation writes the
\* entry of the administrator aimed at instead of the sender's
HandleNormalUserRetaliatesOnTarget(admins, sender_id, target_id, duration) ==
    LET target == IF target_id = <<>> THEN sender_id ELSE target_id
    IN  IF duration <= 0
        THEN [branch |-> "user_bad_duration", blacklist |-> temporary_blacklist]
        ELSE IF InList(target, admins)
        THEN [branch |-> "user_retaliate",
              blacklist |-> _add_to_blacklist(temporary_blacklist, target,
                                              Max(RetaliationFloor, duration))]
        ELSE IF target = sender_id
        THEN [branch |-> "user_self",
              blacklist |-> _add_to_blacklist(temporary_blacklist, sender_id, duration)]
        ELSE [branch |-> "user_other", blacklist |-> temporary_blacklist]

\* _handle_normal_user_blacklist: the branch taken and the registry after it
_handle_normal_user_blacklist(admins, sender_id, target_id, duration) ==
    LET target == IF target_id = <<>> THEN sender_id ELSE target_id
    IN  IF duration <= 0
        THEN [branch |-> "user_bad_duration", blacklist |-> temporary_blacklist]
        ELSE IF InList(target, admins)
        THEN [branch |-> "user_retaliate",
              blacklist |-> _add_to_blacklist(temporary_blacklist, sender_id,
                                              Max(RetaliationFloor, duration))]
        ELSE IF target = sender_id
        THEN [branch |-> "user_self",
              blacklist |-> _add_to_blacklist(temporary_blacklist, sender_id, duration)]
        ELSE [branch |-> "user_other", blacklist |-> temporary_blacklist]

----------------------------------------------------------------------------
(* The record of the event just handled.  branch names the code path the   *)
(* handler ended on; "raise" is an exception leaving the handler.          *)

Idle == [op |-> "idle", sender |-> <<>>, target |-> <<>>, requested |-> None,
         branch |-> "none", prev |-> None]

\* op: the entry point; sender: the normalized sender; target: the extracted
\* target; requested: the duration_minutes argument; prev: the entry, before
\* the call, of the key the handler looks up or writes.  sender and target
\* are those of the event, also when the handler raised before reading them.
Handled(op, sender, target, requested, branch, prev) ==
    [op |-> op, sender |-> sender, target |-> target, requested |-> requested,
     branch |-> branch, prev |-> prev]

\* the entry of user_id in the registry bl, as an optional value
Entry(bl, user_id) == IF user_id \in DOMAIN bl THEN Some(bl[user_id]) ELSE None

\* no pure method is being called directly
NoCall == [method |-> "none", user_id |-> StrVal(<<>>), message_chain |-> <<>>,
           bot_id |-> <<>>, returned |-> None]

Init ==
    /\ temporary_blacklist = <<>>
    /\ administrators \in AdminConfigs
    /\ bot_id = <<>>
    /\ default_blacklist_duration \in DefaultDurations
    /\ save_calls = 0
    /\ now = 0
    /\ get_bot_id_called = FALSE
    /\ ev = Idle
    /\ call = NoCall

\* what every entry point does first: self._get_bot_id(event)
Resolve(g) ==
    /\ bot_id' = g.bot_id
    /\ administrators' = g.administrators
    /\ save_calls' = save_calls + g.saves
    /\ get_bot_id_called' = TRUE

\* a variant of the body of check_blacklist_before_llm that, finding the
\* sender's entry expired, removes every expired entry of the registry
CheckBodySweeping(admins, user_id) ==
    IF InList(user_id, admins)
    THEN [branch |-> "check_admin", blacklist |-> temporary_blacklist]
    ELSE IF user_id \in DOMAIN temporary_blacklist
    THEN IF now < temporary_blacklist[user_id]
         THEN [branch |-> "check_stop", blacklist |-> temporary_blacklist]
         ELSE [branch |-> "check_expired",
               blacklist |-> [k \in {u \in DOMAIN temporary_blacklist :
                                        now < temporary_blacklist[u]}
                                 |-> temporary_blacklist[k]]]
    ELSE [branch |-> "check_pass", blacklist |-> temporary_blacklist]

\* the body of check_blacklist_before_llm after _get_bot_id returned
CheckBody(admins, user_id) ==
    IF InList(user_id, admins)
    THEN [branch |-> "check_admin", blacklist |-> temporary_blacklist]
    ELSE IF user_id \in DOMAIN temporary_blacklist
    THEN IF now < temporary_blacklist[user_id]
         THEN [branch |-> "check_stop", blacklist |-> temporary_blacklist]
         ELSE [branch |-> "check_expired",
               blacklist |-> Delete(temporary_blacklist, user_id)]
    ELSE [branch |-> "check_pass", blacklist |-> temporary_blacklist]

\* check_blacklist_before_llm(event, req)
check_blacklist_before_llm(self_id, sender, save_ok) ==
    LET g       == _get_bot_id(self_id, save_ok)
        user_id == _normalize_user_id(sender)
        r       == CheckBody(g.administrators, user_id)
    IN  /\ ev.op = "idle"
        /\ Resolve(g)
        /\ temporary_blacklist' = IF g.raised THEN temporary_blacklist ELSE r.blacklist
        /\ ev' = Handled("check", user_id, <<>>, None,
                         IF g.raised THEN "raise" ELSE r.branch,
                         Entry(temporary_blacklist, user_id))
        /\ UNCHANGED <<default_blacklist_duration, now, call>>

\* the key a ban branch writes, if it writes
Written(branch, sender_id, target_id) ==
    IF branch = "admin_ban" THEN target_id ELSE sender_id

\* handle_blacklist_request(event, duration_minutes)
handle_blacklist_request(self_id, sender, message, duration_minutes, save_ok) ==
    LET g         == _get_bot_id(self_id, save_ok)
        sender_id == _normalize_user_id(sender)
        target_id == _extract_target_user(message, g.bot_id)
        duration  == EffectiveDuration(duration_minutes)
        r == IF InList(sender_id, g.administrators)
             THEN _handle_admin_blacklist(g.administrators, target_id, duration)
             ELSE _handle_normal_user_blacklist(g.administrators, sender_id,
                                                target_id, duration)
    IN  /\ ev.op = "idle"
        /\ Resolve(g)
        /\ temporary_blacklist' = IF g.raised THEN temporary_blacklist ELSE r.blacklist
        /\ ev' = Handled("ban", sender_id, target_id, duration_minutes,
                         IF g.raised THEN "raise" ELSE r.branch,
                         Entry(temporary_blacklist,
                               Written(r.branch, sender_id, target_id)))
        /\ UNCHANGED <<default_blacklist_duration, now, call>>

\* the body of auto_blacklist_by_bot after _get_bot_id returned
AutoBody(admins, target_id, duration) ==
    IF InList(target_id, admins)
    THEN [branch |-> "auto_admin", blacklist |-> temporary_blacklist]
    ELSE [branch |-> "auto_ban",
          blacklist |-> _add_to_blacklist(temporary_blacklist, target_id, duration)]

\* auto_blacklist_by_bot(event, duration_minutes)
auto_blacklist_by_bot(self_id, sender, duration_minutes, save_ok) ==
    LET g         == _get_bot_id(self_id, save_ok)
        target_id == _normalize_user_id(sender)
        r         == AutoBody(g.administrators, target_id,
                              EffectiveDuration(duration_minutes))
    IN  /\ ev.op = "idle"
        /\ Resolve(g)
        /\ temporary_blacklist' = IF g.raised THEN temporary_blacklist ELSE r.blacklist
        /\ ev' = Handled("auto", target_id, <<>>, duration_minutes,
                         IF g.raised THEN "raise" ELSE r.branch,
                         Entry(temporary_blacklist, target_id))
        /\ UNCHANGED <<default_blacklist_duration, now, call>>

\* the handler has returned (or raised) to the host, which takes the next event
Return ==
    /\ ev.op # "idle"
    /\ ev' = Idle
    /\ UNCHANGED <<temporary_blacklist, administrators, bot_id,
                   default_blacklist_duration, save_calls, now,
                   get_bot_id_called, call>>

\* wall-clock time passes between two events
Tick ==
    /\ ev.op = "idle"
    /\ now + TickSeconds <= MaxTicks * TickSeconds
    /\ now' = now + TickSeconds
    /\ UNCHANGED <<temporary_blacklist, administrators, bot_id,
                   default_blacklist_duration, save_calls,
                   get_bot_id_called, ev, call>>

\* save_config() can only fail where it is called
SaveOutcomes(self_id) ==
    IF _get_bot_id(self_id, TRUE).saves = 1 THEN BOOLEAN ELSE {TRUE}

AdmissionCheck ==
    \E self_id \in SelfIds, sender \in Senders :
        \E save_ok \in SaveOutcomes(self_id) :
            check_blacklist_before_llm(self_id, sender, save_ok)

BanRequest ==
    \E self_id \in SelfIds, sender \in Senders, message \in Chains,
       duration_minutes \in Durations :
        \E save_ok \in SaveOutcomes(self_id) :
            handle_blacklist_request(self_id, sender, message, duration_minutes, save_ok)

AutoBan ==
    \E self_id \in SelfIds, sender \in Senders, duration_minutes \in Durations :
        \E save_ok \in SaveOutcomes(self_id) :
            auto_blacklist_by_bot(self_id, sender, duration_minutes, save_ok)

Next == AdmissionCheck \/ BanRequest \/ AutoBan \/ Return \/ Tick

Spec == Init /\ [][Next]_vars

----------------------------------------------------------------------------
(* Direct calls of the two pure methods, on arguments drawn from bounded    *)
(* sets, by a plugin that has handled no event.                             *)

\* the sequences over S of length at most n
SeqsUpTo(S, n) == UNION {[1..k -> S] : k \in 0..n}

\* characters of raw string identifiers: a digit, a letter, the separator,
\* and four of the whitespace characters (space, tab, carriage return,
\* no-break space)
Chars == {"7", "q", "_", " ", "\t", "\r", "U+00A0"}

\* arguments of _normalize_user_id: str, int and other objects
RawIds ==
    {StrVal(s) : s \in SeqsUpTo(Chars, MaxLen)}
        \cup {IntVal(n) : n \in -MaxInt..MaxInt}
        \cup {OtherVal(<<"N", "o", "n", "e">>), OtherVal(<<"1", ".", "5">>)}

\* components of a message chain, and the bot_id argument
Components == {Plain, At(IdAll), At(Int1), At(Str1), At(Pre2), At(Pad2),
               At(IdNil), At(Str3)}
BotIds == {<<>>, <<"1">>, <<"2">>, <<"9">>}

NormalizeCalls ==
    {[method |-> "_normalize_user_id", user_id |-> u, message_chain |-> <<>>,
      bot_id |-> <<>>, returned |-> None] : u \in RawIds}

ExtractCalls ==
    {[method |-> "_extract_target_user", user_id |-> StrVal(<<>>),
      message_chain |-> m, bot_id |-> b, returned |-> None] :
        m \in SeqsUpTo(Components, MaxChain), b \in BotIds}

PureInit ==
    /\ temporary_blacklist = <<>>
    /\ administrators = <<>>
    /\ bot_id = <<>>
    /\ default_blacklist_duration = ConfigDefaultDuration
    /\ save_calls = 0
    /\ now = 0
    /\ get_bot_id_called = FALSE
    /\ ev = Idle
    /\ call \in NormalizeCalls \cup ExtractCalls

\* self._normalize_user_id(user_id)
CallNormalize ==
    /\ call.method = "_normalize_user_id"
    /\ call.returned = None
    /\ call' = [call EXCEPT !.returned = Some(_normalize_user_id(call.user_id))]
    /\ UNCHANGED <<temporary_blacklist, administrators, bot_id,
                   default_blacklist_duration, save_calls, now,
                   get_bot_id_called, ev>>

\* self._extract_target_user(message_chain, bot_id)
CallExtract ==
    /\ call.method = "_extract_target_user"
    /\ call.returned = None
    /\ call' = [call EXCEPT !.returned =
                    Some(_extract_target_user(call.message_chain, call.bot_id))]
    /\ UNCHANGED <<temporary_blacklist, administrators, bot_id,
                   default_blacklist_duration, save_calls, now,
                   get_bot_id_called, ev>>

PureNext == CallNormalize \/ CallExtract

PureSpec == PureInit /\ [][PureNext]_vars

----------------------------------------------------------------------------
(* Vocabulary of the properties *)

\* membership in the administrator set, as the handlers test it
IsAdmin(user_id, admins) == InList(user_id, admins)

\* the effective duration of a request: the requested one, else the default
Effective(requested) ==
    IF requested = None THEN default_blacklist_duration ELSE requested[1]

\* the registry bl with the entry of user_id set to the instant t
WithEntry(bl, user_id, t) ==
    [k \in DOMAIN bl \cup {user_id} |-> IF k = user_id THEN t ELSE bl[k]]

\* config.save_config() raised during the step
SaveFailed(e) == e.branch = "raise"

\* the sender's entry is in force at the time of the call
InForce(bl, user_id) == user_id \in DOMAIN bl /\ now < bl[user_id]

\* the code paths that write a ban, the user they ban and for how many minutes
Writes == {"admin_ban", "user_self", "user_retaliate", "auto_ban"}
BannedUser(e) == IF e.branch = "admin_ban" THEN e.target ELSE e.sender
BanMinutes(e) ==
    IF e.branch = "user_retaliate"
    THEN Max(RetaliationFloor, Effective(e.requested))
    ELSE Effective(e.requested)

\* the registry bl without the entry of user_id
Without(bl, user_id) == [k \in DOMAIN bl \ {user_id} |-> bl[k]]

----------------------------------------------------------------------------
(* C1: an admission check rejects the request (calls stop_event) exactly   *)
(* when the sender is no administrator and has a registry entry whose      *)
(* expiry is later than the current time; for an administrator the request *)
(* is allowed and the registry is left as it is.                           *)

C1_Step ==
    ev'.op = "check" =>
        /\ (ev'.branch = "check_stop") <=>
               (~IsAdmin(ev'.sender, administrators')
                    /\ InForce(temporary_blacklist, ev'.sender))
        /\ IsAdmin(ev'.sender, administrators') =>
               temporary_blacklist' = temporary_blacklist

C1_Admission == [][C1_Step]_vars

\* the same, for the checks in which save_config did not raise
C1_AdmissionSaved == [][~SaveFailed(ev') => C1_Step]_vars

----------------------------------------------------------------------------
(* C2: a ban of a non-administrator u for d > 0 minutes written at time t   *)
(* puts the expiry t + 60*d in the registry; until a later ban of u that    *)
(* entry stays as written, except that a check of u at or after the expiry  *)
(* removes it; the clock never runs backwards; and a check of u while the   *)
(* entry is there is rejected before the expiry and allowed from it on.     *)

C2_Step ==
    /\ now' >= now
    /\ (ev'.branch \in Writes /\ BanMinutes(ev') > 0) =>
           /\ BannedUser(ev') \in DOMAIN temporary_blacklist'
           /\ temporary_blacklist'[BannedUser(ev')] =
                  now + 60 * BanMinutes(ev')
    /\ \A u \in DOMAIN temporary_blacklist :
           ~(ev'.branch \in Writes /\ BannedUser(ev') = u) =>
               \/ /\ u \in DOMAIN temporary_blacklist'
                  /\ temporary_blacklist'[u] = temporary_blacklist[u]
               \/ /\ ev'.op = "check" /\ ev'.sender = u
                  /\ now >= temporary_blacklist[u]
    /\ (/\ ev'.op = "check"
        /\ ~IsAdmin(ev'.sender, administrators')
        /\ ev'.sender \in DOMAIN temporary_blacklist) =>
           IF now < temporary_blacklist[ev'.sender]
           THEN ev'.branch = "check_stop"
           ELSE ev'.branch # "check_stop"

C2_BanWindow == [][C2_Step]_vars

\* the same, for the steps in which save_config did not raise
C2_BanWindowSaved == [][~SaveFailed(ev') => C2_Step]_vars

----------------------------------------------------------------------------
(* C3: a ban request of a non-administrator whose extracted target is an    *)
(* administrator, with effective duration d > 0, sets the sender's entry    *)
(* to now + 60*max(5, d) and leaves every other entry as it was.            *)

C3_Step ==
    (/\ ev'.op = "ban"
     /\ ~IsAdmin(ev'.sender, administrators')
     /\ IsAdmin(ev'.target, administrators')
     /\ Effective(ev'.requested) > 0) =>
        temporary_blacklist' =
            WithEntry(temporary_blacklist, ev'.sender,
                      now + 60 * Max(5, Effective(ev'.requested)))

C3_Retaliation == [][C3_Step]_vars

\* the same, for the requests in which save_config did not raise
C3_RetaliationSaved == [][~SaveFailed(ev') => C3_Step]_vars

----------------------------------------------------------------------------
(* C4: a ban request of a non-administrator with effective duration d > 0   *)
(* whose extracted target is empty or the sender sets the sender's entry    *)
(* to exactly now + 60*d, with no floor.                                    *)

C4_Step ==
    (/\ ev'.op = "ban"
     /\ ~IsAdmin(ev'.sender, administrators')
     /\ ev'.target \in {<<>>, ev'.sender}
     /\ Effective(ev'.requested) > 0) =>
        /\ ev'.sender \in DOMAIN temporary_blacklist'
        /\ temporary_blacklist'[ev'.sender] = now + 60 * Effective(ev'.requested)

C4_SelfBan == [][C4_Step]_vars

\* the same, for the requests in which save_config did not raise
C4_SelfBanSaved == [][~SaveFailed(ev') => C4_Step]_vars

----------------------------------------------------------------------------
(* C5: a ban request of a non-administrator whose extracted target is a     *)
(* different user who is no administrator either leaves the registry        *)
(* unchanged, whatever the requested duration.                              *)

C5_OtherUserRejected ==
    [][(/\ ev'.op = "ban"
        /\ ~IsAdmin(ev'.sender, administrators')
        /\ ev'.target \notin {<<>>, ev'.sender}
        /\ ~IsAdmin(ev'.target, administrators')) =>
           temporary_blacklist' = temporary_blacklist]_vars

\* a non-administrator asked for a positive ban of another non-administrator,
\* the handler ran to its end, and the registry holds entries
C5_Witness ==
    /\ ev.op = "ban" /\ ev.branch = "user_other"
    /\ Effective(ev.requested) > 0
    /\ ev.target \notin DOMAIN temporary_blacklist
    /\ temporary_blacklist # <<>>

----------------------------------------------------------------------------
(* C6: a ban request of an administrator writes the registry exactly when   *)
(* the extracted target is non-empty and no administrator and the effective *)
(* duration d is > 0, and then sets only the target's entry, to now + 60*d; *)
(* the sender's own entry is never touched.                                 *)

C6_Step ==
    (ev'.op = "ban" /\ IsAdmin(ev'.sender, administrators')) =>
        /\ temporary_blacklist' =
               IF /\ ev'.target # <<>>
                  /\ ~IsAdmin(ev'.target, administrators')
                  /\ Effective(ev'.requested) > 0
               THEN WithEntry(temporary_blacklist, ev'.target,
                              now + 60 * Effective(ev'.requested))
               ELSE temporary_blacklist
        /\ Entry(temporary_blacklist', ev'.sender) =
               Entry(temporary_blacklist, ev'.sender)

C6_AdminPath == [][C6_Step]_vars

\* the same, for the requests in which save_config did not raise
C6_AdminPathSaved == [][~SaveFailed(ev') => C6_Step]_vars

----------------------------------------------------------------------------
(* C7: auto_blacklist_by_bot leaves the registry unchanged when the sender  *)
(* is an administrator; otherwise it sets the sender's entry to             *)
(* now + 60*d, d being the explicit duration or else the configured default.*)

C7_Step ==
    ev'.op = "auto" =>
        temporary_blacklist' =
            IF IsAdmin(ev'.sender, administrators')
            THEN temporary_blacklist
            ELSE WithEntry(temporary_blacklist, ev'.sender,
                           now + 60 * Effective(ev'.requested))

C7_AutoBan == [][C7_Step]_vars

\* the same, for the calls in which save_config did not raise
C7_AutoBanSaved == [][~SaveFailed(ev') => C7_Step]_vars

----------------------------------------------------------------------------
(* C8: a ban request that fails validation (administrator sender with no    *)
(* target or an administrator target or an effective duration <= 0;         *)
(* other sender with an effective duration <= 0 or another non-             *)
(* administrator as target; an explicit 0 counts as 0, not as the default)  *)
(* changes neither the registry nor the default duration and raises no      *)
(* error to the caller.                                                     *)

FailsValidation(e, admins) ==
    /\ e.op = "ban"
    /\ IF IsAdmin(e.sender, admins)
       THEN \/ e.target = <<>>
            \/ IsAdmin(e.target, admins)
            \/ Effective(e.requested) <= 0
       ELSE \/ Effective(e.requested) <= 0
            \/ e.target \notin {<<>>, e.sender} /\ ~IsAdmin(e.target, admins)

C8_Unchanged ==
    /\ temporary_blacklist' = temporary_blacklist
    /\ default_blacklist_duration' = default_blacklist_duration

C8_ValidationFailure ==
    [][FailsValidation(ev', administrators') =>
           C8_Unchanged /\ ~SaveFailed(ev')]_vars

\* the part that holds: no validation failure changes the registry
C8_ValidationFailureNoChange ==
    [][FailsValidation(ev', administrators') => C8_Unchanged]_vars

----------------------------------------------------------------------------
(* C9: an admission check of a non-administrator whose entry has expired    *)
(* allows the request and removes the entry; and an entry leaves the        *)
(* registry in no other way.                                                *)

C9_Step ==
    /\ (/\ ev'.op = "check"
        /\ ~IsAdmin(ev'.sender, administrators')
        /\ ev'.sender \in DOMAIN temporary_blacklist
        /\ now >= temporary_blacklist[ev'.sender]) =>
           /\ ev'.branch # "check_stop"
           /\ temporary_blacklist' = Without(temporary_blacklist, ev'.sender)
    /\ \A u \in DOMAIN temporary_blacklist \ DOMAIN temporary_blacklist' :
           /\ ev'.op = "check" /\ ev'.sender = u
           /\ ~IsAdmin(u, administrators')
           /\ now >= temporary_blacklist[u]

C9_LazyExpiry == [][C9_Step]_vars

\* the same, for the steps in which save_config did not raise
C9_LazyExpirySaved == [][~SaveFailed(ev') => C9_Step]_vars

----------------------------------------------------------------------------
(* C10: a ban written for a user who already has an entry replaces it: the  *)
(* new expiry is now + 60*d of the new call alone, also when that is        *)
(* earlier than the expiry it replaces.                                     *)

C10_LastWriteWins ==
    [][(ev'.branch \in Writes /\ BannedUser(ev') \in DOMAIN temporary_blacklist) =>
           /\ BannedUser(ev') \in DOMAIN temporary_blacklist'
           /\ temporary_blacklist'[BannedUser(ev')] =
                  now + 60 * BanMinutes(ev')]_vars

\* a ban still in force was replaced by one that ends earlier
C10_Witness ==
    /\ ev.branch \in Writes
    /\ ev.prev # None
    /\ now < temporary_blacklist[BannedUser(ev)]
    /\ temporary_blacklist[BannedUser(ev)] < ev.prev[1]

----------------------------------------------------------------------------
(* Vocabulary of the properties on identities *)

\* the canonical form of user_id equals that of some entry of the list
CanonIn(user_id, list) ==
    \E i \in 1..Len(list) : _normalize_user_id(list[i]) = user_id

\* the entries of the list whose canonical form is user_id
CanonEntries(user_id, list) ==
    {i \in 1..Len(list) : _normalize_user_id(list[i]) = user_id}

\* the entries of the list that are the string user_id itself
RawEntries(user_id, list) == {i \in 1..Len(list) : list[i] = StrVal(user_id)}

\* the step appended an entry to the administrator list
Appended == Len(administrators') > Len(administrators)

----------------------------------------------------------------------------
(* C11: once an entry point has processed an event, the bot's normalized    *)
(* identity is a member of the administrator set, and stays one; the list   *)
(* never holds the bot identity twice; save_config is called exactly when   *)
(* the identity was appended, at most once per process, and never when the  *)
(* identity was already a member.                                           *)

C11_Step ==
    /\ ev'.op # "idle" => CanonIn(bot_id', administrators')
    /\ ev'.op = "idle" => UNCHANGED <<bot_id, administrators>>
    /\ Cardinality(CanonEntries(bot_id', administrators')) <= 1
    /\ save_calls' = save_calls + (IF Appended THEN 1 ELSE 0)
    /\ save_calls' <= 1
    /\ save_calls' > save_calls => ~CanonIn(bot_id', administrators)

C11_Enrollment == [][C11_Step]_vars

\* what holds: a non-empty bot identity is enrolled as a string and stays
\* enrolled, that string is in the list once, and save_config is called
\* exactly when it was appended, at most once
C11_EnrollmentOfString ==
    [][/\ (ev'.op # "idle" /\ bot_id' # <<>>) => InList(bot_id', administrators')
       /\ ev'.op = "idle" => UNCHANGED <<bot_id, administrators>>
       /\ Cardinality(RawEntries(bot_id', administrators')) <= 1
       /\ save_calls' = save_calls + (IF Appended THEN 1 ELSE 0)
       /\ save_calls' <= 1
       /\ save_calls' > save_calls => ~InList(bot_id', administrators)]_vars

----------------------------------------------------------------------------
(* C12: the bot identity is the one resolved by the first call of           *)
(* _get_bot_id: every later call returns that value whatever self-id its    *)
(* event carries, also when the first self-id normalized to "".             *)

C12_Step == get_bot_id_called => bot_id' = bot_id

C12_ResolvedOnce == [][C12_Step]_vars

\* what holds: a non-empty bot identity never changes
C12_NonEmptyIsKept == [][bot_id # <<>> => bot_id' = bot_id]_vars

----------------------------------------------------------------------------
(* C13: a step that calls save_config, whether the save returns or fails,   *)
(* leaves the bot identity cached and enrolled in the in-memory             *)
(* administrator list, where it stays for the rest of the process, and      *)
(* handles its event to the outcome the handler's body gives for it, never  *)
(* ending in an error.                                                      *)

\* the outcome of the body of the handler of event e once _get_bot_id has
\* returned with the administrator list admins
NormalOutcome(e, admins) ==
    IF e.op = "check" THEN CheckBody(admins, e.sender)
    ELSE IF e.op = "auto" THEN AutoBody(admins, e.sender, Effective(e.requested))
    ELSE IF IsAdmin(e.sender, admins)
    THEN _handle_admin_blacklist(admins, e.target, Effective(e.requested))
    ELSE _handle_normal_user_blacklist(admins, e.sender, e.target,
                                       Effective(e.requested))

\* the bot identity is cached and enrolled
Enrolled(bid, admins) == bid # <<>> /\ InList(bid, admins)

C13_Kept ==
    /\ save_calls' > save_calls => Enrolled(bot_id', administrators')
    /\ Enrolled(bot_id, administrators) =>
           bot_id' = bot_id /\ Enrolled(bot_id', administrators')

C13_Step ==
    /\ C13_Kept
    /\ save_calls' > save_calls =>
           /\ ~SaveFailed(ev')
           /\ ev'.branch = NormalOutcome(ev', administrators').branch
           /\ temporary_blacklist' = NormalOutcome(ev', administrators').blacklist

C13_SaveFailureTolerated == [][C13_Step]_vars

\* what holds: the identity is cached and enrolled in memory also when the
\* save failed, and stays so
C13_EnrollmentKept == [][C13_Kept]_vars

\* and when the save returned the event has its normal outcome
C13_SavedOutcome ==
    [][(save_calls' > save_calls /\ ~SaveFailed(ev')) => C13_Step]_vars

----------------------------------------------------------------------------
(* C14: _extract_target_user returns the normalized identifier of the first *)
(* mention in the chain that is neither the broadcast mention "all" nor a   *)
(* mention whose normalized identifier is the bot's, whatever components    *)
(* that are no mentions stand before it; and the empty target when the      *)
(* chain has no such mention.                                               *)

\* the positions of the chain that hold a mention of a user other than the bot
Qualifying(message_chain, bid) ==
    {i \in 1..Len(message_chain) :
        /\ message_chain[i].kind = "At"
        /\ message_chain[i].qq # IdAll
        /\ _normalize_user_id(message_chain[i].qq) # bid}

Least(S) == CHOOSE i \in S : \A j \in S : i <= j

Extracted == call.method = "_extract_target_user" /\ call.returned # None

C14_TargetExtraction ==
    Extracted =>
        LET q == Qualifying(call.message_chain, call.bot_id)
        IN  call.returned[1] =
                IF q = {} THEN <<>>
                ELSE _normalize_user_id(call.message_chain[Least(q)].qq)

\* the extraction passed over a broadcast mention and a mention of the bot
\* and returned the mention after them
C14_Witness ==
    /\ Extracted
    /\ call.bot_id = <<"2">>
    /\ call.message_chain = <<At(IdAll), At(Pad2), At(Int1)>>
    /\ call.returned = Some(<<"1">>)

\* the chain holds mentions, every one of them the broadcast or the bot, and
\* the extraction returned the empty target
C14_WitnessEmpty ==
    /\ Extracted
    /\ call.message_chain = <<At(Pre2), At(IdAll), At(Pad2)>>
    /\ call.bot_id = <<"2">>
    /\ call.returned = Some(<<>>)

----------------------------------------------------------------------------
(* C15: in the admission check, the ban request (sender and target) and     *)
(* the auto-ban, a user is treated as an administrator exactly when the     *)
(* user's canonical form is the canonical form of some entry of the         *)
(* administrator list, whatever raw form that entry has.                    *)

\* the target a ban request of a non-administrator works with
UserTarget(e) == IF e.target = <<>> THEN e.sender ELSE e.target

\* the handlers treat as administrators exactly the members under Member
TreatedBy(Member(_, _), e, admins) ==
    /\ e.op = "check" => (e.branch = "check_admin" <=> Member(e.sender, admins))
    /\ e.op = "auto" => (e.branch = "auto_admin" <=> Member(e.sender, admins))
    /\ e.op = "ban" =>
           /\ e.branch \in {"admin_no_target", "admin_target_admin",
                             "admin_bad_duration", "admin_ban"}
                  <=> Member(e.sender, admins)
           /\ (Member(e.sender, admins) /\ e.target # <<>>) =>
                  (e.branch = "admin_target_admin" <=> Member(e.target, admins))
           /\ (~Member(e.sender, admins) /\ Effective(e.requested) > 0) =>
                  (e.branch = "user_retaliate" <=> Member(UserTarget(e), admins))

C15_CanonicalMembership ==
    [][(ev'.op # "idle" /\ ~SaveFailed(ev')) =>
           TreatedBy(CanonIn, ev', administrators')]_vars

\* what holds: the members are the users whose canonical form is itself an
\* entry of the list, as a string
C15_StringMembership ==
    [][(ev'.op # "idle" /\ ~SaveFailed(ev')) =>
           TreatedBy(InList, ev', administrators')]_vars

\* and the two agree when every entry of the list is a canonical string
C15_CanonicalConfig ==
    [][(/\ ev'.op # "idle" /\ ~SaveFailed(ev')
        /\ \A i \in 1..Len(administrators') :
               administrators'[i] = StrVal(_normalize_user_id(administrators'[i]))) =>
           TreatedBy(CanonIn, ev', administrators')]_vars

----------------------------------------------------------------------------
(* C16: _normalize_user_id returns, for an integer, its decimal string; for *)
(* a string, the part after its last underscore without the whitespace      *)
(* around it; so normalize(n) = normalize(str(n)) for an integer n, and     *)
(* normalize(normalize(s)) = normalize(s) for a string s with no            *)
(* underscore.  Every argument has a result.                                *)

DigitChars == {Digit(d) : d \in 0..9}
DigitOf(c) == CHOOSE d \in 0..9 : Digit(d) = c

\* the number a string of digits writes
RECURSIVE DecimalValue(_)
DecimalValue(s) ==
    IF s = <<>> THEN 0
    ELSE 10 * DecimalValue(SubSeq(s, 1, Len(s) - 1)) + DigitOf(s[Len(s)])

\* s is the decimal string of the integer n
IsDecimalOf(s, n) ==
    LET digits == IF n < 0 THEN Tail(s) ELSE s
    IN  /\ s # <<>>
        /\ n < 0 => s[1] = "-"
        /\ digits # <<>>
        /\ \A i \in 1..Len(digits) : digits[i] \in DigitChars
        /\ Len(digits) > 1 => digits[1] # "0"
        /\ DecimalValue(digits) = (IF n < 0 THEN -n ELSE n)

\* r is the part of s after its last underscore (all of s if it has none),
\* without the whitespace at its two ends
IsStrippedLastSegment(s, r) ==
    \E k \in 0..Len(s) :
        /\ k = 0 \/ s[k] = "_"
        /\ \A i \in (k + 1)..Len(s) : s[i] # "_"
        /\ \E a \in k..Len(s) : \E b \in a..Len(s) :
               /\ r = SubSeq(s, a + 1, b)
               /\ \A i \in (k + 1)..a : s[i] \in Whitespace
               /\ \A i \in (b + 1)..Len(s) : s[i] \in Whitespace
               /\ r # <<>> => (r[1] \notin Whitespace /\ r[Len(r)] \notin Whitespace)

HasUnderscore(s) == \E i \in 1..Len(s) : s[i] = "_"

Normalized == call.method = "_normalize_user_id" /\ call.returned # None

C16_Normalize ==
    Normalized =>
        LET u == call.user_id
            r == call.returned[1]
        IN  /\ u.tag = "int" =>
                   /\ IsDecimalOf(r, u.int)
                   /\ _normalize_user_id(StrVal(IntToStr(u.int))) = r
            /\ u.tag = "str" =>
                   /\ IsStrippedLastSegment(u.str, r)
                   /\ ~HasUnderscore(u.str) => _normalize_user_id(StrVal(r)) = r
            /\ u.tag = "other" => r = u.str

\* a prefixed, padded string was normalized to its bare identifier
C16_Witness ==
    /\ Normalized
    /\ call.user_id = StrVal(<<"_", " ", "7">>)
    /\ call.returned = Some(<<"7">>)

\* a negative integer of two digits was normalized to its decimal string
C16_WitnessInt ==
    /\ Normalized
    /\ call.user_id = IntVal(-MaxInt)
    /\ Len(call.returned[1]) = 3

----------------------------------------------------------------------------
(* C17: a ban request of a sender who is no administrator, and an auto-ban, *)
(* leave the entry, or the absence of an entry, of every user other than    *)
(* the sender as it was, whatever target the message mentions.              *)

\* the registries bl1 and bl2 agree on every user but user_id
SameButFor(bl1, bl2, user_id) ==
    \A u \in (DOMAIN bl1 \cup DOMAIN bl2) \ {user_id} :
        Entry(bl1, u) = Entry(bl2, u)

C17_SenderOnly ==
    [][(\/ ev'.op = "ban" /\ ~IsAdmin(ev'.sender, administrators')
        \/ ev'.op = "auto") =>
           SameButFor(temporary_blacklist, temporary_blacklist', ev'.sender)]_vars

\* a non-administrator who mentioned an administrator was banned in return,
\* while another user holds an entry
C17_Witness ==
    /\ ev.op = "ban" /\ ev.branch = "user_retaliate"
    /\ ev.target # ev.sender
    /\ ev.sender \in DOMAIN temporary_blacklist
    /\ \E u \in DOMAIN temporary_blacklist : u # ev.sender

\* an auto-ban wrote the sender's entry while another user holds one
C17_WitnessAuto ==
    /\ ev.op = "auto" /\ ev.branch = "auto_ban"
    /\ \E u \in DOMAIN temporary_blacklist : u # ev.sender

----------------------------------------------------------------------------
(* C18: in every reachable state no identifier is both a key of the         *)
(* registry and a member of the administrator list.                         *)

C18_NoBannedAdministrator ==
    \A u \in DOMAIN temporary_blacklist : ~IsAdmin(u, administrators)

\* what holds: no step writes an entry for a member of the list
C18_NoBanOfAdministrator ==
    [][\A u \in DOMAIN temporary_blacklist' :
           Entry(temporary_blacklist', u) # Entry(temporary_blacklist, u) =>
               ~IsAdmin(u, administrators')]_vars

\* and the only member that can hold an entry is the bot, enrolled after
\* the entry was written
C18_OnlyTheBot ==
    \A u \in DOMAIN temporary_blacklist :
        IsAdmin(u, administrators) => u = bot_id

----------------------------------------------------------------------------
(* C19: every entry a step writes into the registry has an expiry later     *)
(* than the time of the write, on the admin path, the user path and the     *)
(* auto-ban, whatever the requested and the default duration.               *)

\* the users whose entry the step wrote
WrittenUsers ==
    {u \in DOMAIN temporary_blacklist' :
        Entry(temporary_blacklist', u) # Entry(temporary_blacklist, u)}

C19_ExpiryAfterWrite ==
    [][/\ \A u \in WrittenUsers : temporary_blacklist'[u] > now
       /\ ev'.branch \in Writes => temporary_blacklist'[BannedUser(ev')] > now]_vars

\* what holds: the admin path and the user path write only expiries later
\* than the write, and the auto-ban does so exactly for a duration > 0
C19_ValidatedPaths ==
    [][/\ ev'.branch \in Writes \ {"auto_ban"} =>
              /\ temporary_blacklist'[BannedUser(ev')] > now
              /\ WrittenUsers \subseteq {BannedUser(ev')}
       /\ ev'.branch = "auto_ban" =>
              (temporary_blacklist'[ev'.sender] > now <=> Effective(ev'.requested) > 0)
       /\ ev'.branch \notin Writes => WrittenUsers = {}]_vars

----------------------------------------------------------------------------
(* C20: an admission check adds no entry to the registry and changes no     *)
(* expiry; the only entry it can remove is the sender's own, and only once  *)
(* expired; and it leaves the administrator list as it was, but for the     *)
(* one enrollment of the bot.                                               *)

\* the step made the one enrollment: the first append, of the identity just
\* resolved
OneEnrollment ==
    /\ bot_id = <<>> /\ bot_id' # <<>>
    /\ save_calls = 0
    /\ ~IsAdmin(bot_id', administrators)
    /\ administrators' = Append(administrators, StrVal(bot_id'))

C20_CheckFrame ==
    [][ev'.op = "check" =>
           /\ DOMAIN temporary_blacklist' \subseteq DOMAIN temporary_blacklist
           /\ \A u \in DOMAIN temporary_blacklist' :
                  temporary_blacklist'[u] = temporary_blacklist[u]
           /\ \A u \in DOMAIN temporary_blacklist \ DOMAIN temporary_blacklist' :
                  u = ev'.sender /\ now >= temporary_blacklist[u]
           /\ administrators' = administrators \/ OneEnrollment]_vars

\* a check removed the sender's expired entry and kept the expired entry of
\* another user
C20_Witness ==
    /\ ev.op = "check" /\ ev.branch = "check_expired"
    /\ ev.sender \notin DOMAIN temporary_blacklist
    /\ \E u \in DOMAIN temporary_blacklist : now >= temporary_blacklist[u]

\* a check enrolled the bot (its save failed) while the registry held the
\* sender's entry
C20_WitnessEnrollment ==
    /\ ev.op = "check" /\ SaveFailed(ev)
    /\ ev.sender \in DOMAIN temporary_blacklist

====
